---- MODULE Spec2Model ----
(***************************************************************************)
(* Model of package ellipses (src/ellipses/ellipses.go).                   *)
(*                                                                         *)
(* Go strings are modelled as sequences of one-character strings.  The     *)
(* uint64 of the range parser is modelled as an unsigned integer of        *)
(* UintBits bits, with the same saturation in strconv.ParseUint and the    *)
(* same wrap-around in i++.                                                *)
(***************************************************************************)
EXTENDS Integers, Sequences, FiniteSets, TLC

\* ------------------------------------------------------------------------
\* Bounds
\* ------------------------------------------------------------------------
UintBits == 6            \* width of the modelled uint64
MaxSpans == 2            \* at most this many {N...M} slots in an input
MaxArgs == 2             \* arguments of HasEllipses, labels of a Pattern
MaxLen == 3              \* characters of a wildcard pattern and of a name
MaxLists == 4            \* label lists given to argExpander
MaxChoices == 2          \* labels of one of these lists
MaxExtra == 2            \* labels a wrapped-around loop may add before the
                         \* model stops following it (memory is finite)

MaxUint64 == 2^UintBits - 1
MaxSeqLen == 2^UintBits + MaxExtra

\* ------------------------------------------------------------------------
\* Characters and strings
\* ------------------------------------------------------------------------
openBraces == <<"{">>
closeBraces == <<"}">>
ellipses == <<".", ".", ".">>

HexDigits ==
  <<"0", "1", "2", "3", "4", "5", "6", "7", "8", "9", "a", "b", "c", "d", "e", "f">>

\* the character class [0-9a-z] of regexpEllipses
AlnumChars ==
  {"0", "1", "2", "3", "4", "5", "6", "7", "8", "9",
   "a", "b", "c", "d", "e", "f", "g", "h", "i", "j", "k", "l", "m",
   "n", "o", "p", "q", "r", "s", "t", "u", "v", "w", "x", "y", "z"}

\* strings.Index: first position where sub occurs in s, 0 if none
Index(s, sub) ==
  LET hits == {p \in 1..(Len(s) - Len(sub) + 1) : SubSeq(s, p, p + Len(sub) - 1) = sub}
  IN IF hits = {} THEN 0 ELSE CHOOSE p \in hits : \A q \in hits : p <= q

Contains(s, sub) == Index(s, sub) > 0

HasPrefix(s, pre) == Len(s) >= Len(pre) /\ SubSeq(s, 1, Len(pre)) = pre

HasSuffix(s, suf) == Len(s) >= Len(suf) /\ SubSeq(s, Len(s) - Len(suf) + 1, Len(s)) = suf

TrimPrefix(s, pre) == IF HasPrefix(s, pre) THEN SubSeq(s, Len(pre) + 1, Len(s)) ELSE s

TrimSuffix(s, suf) == IF HasSuffix(s, suf) THEN SubSeq(s, 1, Len(s) - Len(suf)) ELSE s

\* strings.Split(s, sep) for a non-empty sep
RECURSIVE Split(_, _)
Split(s, sep) ==
  LET p == Index(s, sep)
  IN IF p = 0 THEN <<s>>
     ELSE <<SubSeq(s, 1, p - 1)>> \o Split(SubSeq(s, p + Len(sep), Len(s)), sep)

\* strings.Count(s, sub) > 0
CountPositive(s, sub) == Contains(s, sub)

\* ------------------------------------------------------------------------
\* strconv.ParseUint(s, base, 64) and fmt.Sprintf("%d" | "%x" | "%0Nd" | "%0Nx")
\* ------------------------------------------------------------------------
IsDigit(c, base) == \E k \in 1..base : HexDigits[k] = c

DigitVal(c) == (CHOOSE k \in 1..16 : HexDigits[k] = c) - 1

\* value of a digit string, saturating just above MaxUint64 (the parser
\* stops at the first overflow)
RECURSIVE DigitsValue(_, _)
DigitsValue(s, base) ==
  IF s = <<>> THEN 0
  ELSE LET hi == DigitsValue(SubSeq(s, 1, Len(s) - 1), base)
       IN IF hi > MaxUint64 THEN hi ELSE hi * base + DigitVal(s[Len(s)])

ParseUint(s, base) ==
  IF s = <<>> \/ \E k \in 1..Len(s) : ~IsDigit(s[k], base)
  THEN [err |-> "syntax", val |-> 0]
  ELSE IF DigitsValue(s, base) > MaxUint64
  THEN [err |-> "range", val |-> MaxUint64]
  ELSE [err |-> "nil", val |-> DigitsValue(s, base)]

RECURSIVE FormatUint(_, _)
FormatUint(n, base) ==
  IF n < base THEN <<HexDigits[n + 1]>>
  ELSE FormatUint(n \div base, base) \o <<HexDigits[(n % base) + 1]>>

RECURSIVE PadZero(_, _)
PadZero(s, width) == IF Len(s) >= width THEN s ELSE PadZero(<<"0">> \o s, width)

\* ------------------------------------------------------------------------
\* Error values
\* ------------------------------------------------------------------------
nil == [kind |-> "nil"]

errFormat == [kind |-> "errFormat"]

errInvalidArgument == [kind |-> "invalid argument"]

\* *strconv.NumError returned by ParseUint: why is "syntax" or "range"
NumError(text, why) == [kind |-> "strconv", text |-> text, why |-> why]

\* fmt.Errorf("incorrect range start %d cannot be bigger than end %d", ...)
RangeOrderError(s, e) == [kind |-> "order", start |-> s, end |-> e]

ErrInvalidEllipsesFormatFn(a) == [kind |-> "format", arg |-> a]

\* ------------------------------------------------------------------------
\* regexpEllipses = (.*)({[0-9a-z]*\.\.\.[0-9a-z]*})(.*)
\* ------------------------------------------------------------------------
\* length of the longest run of [0-9a-z] starting at position p
RECURSIVE AlnumRun(_, _)
AlnumRun(s, p) ==
  IF p > Len(s) \/ s[p] \notin AlnumChars THEN 0 ELSE 1 + AlnumRun(s, p + 1)

\* position of the "}" closing a match of {[0-9a-z]*\.\.\.[0-9a-z]*} that
\* begins at p, or 0 when none begins there
SpanEnd(s, p) ==
  IF p > Len(s) \/ s[p] # "{" THEN 0
  ELSE LET q == p + 1 + AlnumRun(s, p + 1)
       IN IF q + 2 > Len(s) \/ SubSeq(s, q, q + 2) # ellipses THEN 0
          ELSE LET r == q + 3 + AlnumRun(s, q + 3)
               IN IF r <= Len(s) /\ s[r] = "}" THEN r ELSE 0

\* "." matches every character but the line feed
DotStar(s, from, to) == \A k \in from..to : s[k] # "\n"

\* re.FindStringSubmatch(s): <<whole, group 1, group 2, group 3>> of the
\* leftmost match, group 1 as long as possible; <<>> when nothing matches
FindStringSubmatch(s) ==
  LET Spans  == {p \in 1..Len(s) : SpanEnd(s, p) > 0}
      Starts == {m \in 1..Len(s) : \E p \in Spans : p >= m /\ DotStar(s, m, p - 1)}
  IN IF Starts = {} THEN <<>>
     ELSE LET m  == CHOOSE x \in Starts : \A y \in Starts : x <= y
              Ps == {p \in Spans : p >= m /\ DotStar(s, m, p - 1)}
              p  == CHOOSE x \in Ps : \A y \in Ps : y <= x
              r  == SpanEnd(s, p)
              Es == {e \in r..Len(s) : DotStar(s, r + 1, e)}
              e  == CHOOSE x \in Es : \A y \in Es : y <= x
          IN <<SubSeq(s, m, e), SubSeq(s, m, p - 1), SubSeq(s, p, r), SubSeq(s, r + 1, e)>>

MatchString(s) == FindStringSubmatch(s) # <<>>

\* ------------------------------------------------------------------------
\* parseEllipsesRange: the part before the label loop
\* ------------------------------------------------------------------------
\* one boundary: decimal first, hexadecimal when decimal fails
ParseBoundary(text) ==
  LET d == ParseUint(text, 10)
      h == ParseUint(text, 16)
  IN IF d.err = "nil" THEN [err |-> nil, val |-> d.val, hex |-> FALSE]
     ELSE IF h.err # "nil" THEN [err |-> NumError(text, h.err), val |-> h.val, hex |-> FALSE]
     ELSE [err |-> nil, val |-> h.val, hex |-> TRUE]

\* RangeOrderOK without the test of line 79
RangeOrderOK_Always(s, e) == TRUE

RangeOrderOK(s, e) == ~(s > e)

NoRange(e) ==
  [err |-> e, ellipsesRange |-> <<>>, start |-> 0, end |-> 0, hexadecimal |-> FALSE]

RangeHeader(pat) ==
  IF ~Contains(pat, openBraces) THEN NoRange(errInvalidArgument)
  ELSE IF ~Contains(pat, closeBraces) THEN NoRange(errInvalidArgument)
  ELSE LET er == Split(TrimSuffix(TrimPrefix(pat, openBraces), closeBraces), ellipses)
       IN IF Len(er) # 2 THEN NoRange(errInvalidArgument)
          ELSE LET s == ParseBoundary(er[1])
                   e == ParseBoundary(er[2])
               IN IF s.err.kind # "nil" THEN NoRange(s.err)
                  ELSE IF e.err.kind # "nil" THEN NoRange(e.err)
                  ELSE IF ~RangeOrderOK(s.val, e.val)
                  THEN NoRange(RangeOrderError(s.val, e.val))
                  ELSE [err |-> nil, ellipsesRange |-> er, start |-> s.val,
                        end |-> e.val, hexadecimal |-> s.hex \/ e.hex]

\* NeedPad without the length test on the left boundary
NeedPad_NoLength(er) == HasPrefix(er[1], <<"0">>) \/ HasPrefix(er[2], <<"0">>)

\* Label padding every label, whatever the boundaries look like
Label_AlwaysPad(er, hex, n) ==
  PadZero(FormatUint(n, IF hex THEN 16 ELSE 10), Len(er[2]))

\* the condition of line 84
NeedPad(er) ==
  (HasPrefix(er[1], <<"0">>) /\ Len(er[1]) > 1) \/ HasPrefix(er[2], <<"0">>)

\* the label appended for counter value n
Label(er, hex, n) ==
  IF NeedPad(er)
  THEN PadZero(FormatUint(n, IF hex THEN 16 ELSE 10), Len(er[2]))
  ELSE FormatUint(n, IF hex THEN 16 ELSE 10)

\* i++ on the unsigned counter
Incr(n) == (n + 1) % (2^UintBits)

\* ------------------------------------------------------------------------
\* Pattern, Pattern.Expand, argExpander, ArgPattern.Expand
\* ------------------------------------------------------------------------
Pattern(prefix, suffix, sq) == [Prefix |-> prefix, Suffix |-> suffix, Seq |-> sq]

\* Pattern.Expand dropping the suffix when both decorations are set
PatternExpand_NoSuffix(p) ==
  [k \in 1..Len(p.Seq) |->
     IF p.Prefix # <<>> /\ p.Suffix = <<>> THEN p.Prefix \o p.Seq[k]
     ELSE IF p.Suffix # <<>> /\ p.Prefix = <<>> THEN p.Seq[k] \o p.Suffix
     ELSE IF p.Suffix = <<>> /\ p.Prefix = <<>> THEN p.Seq[k]
     ELSE p.Prefix \o p.Seq[k]]

PatternExpand(p) ==
  [k \in 1..Len(p.Seq) |->
     IF p.Prefix # <<>> /\ p.Suffix = <<>> THEN p.Prefix \o p.Seq[k]
     ELSE IF p.Suffix # <<>> /\ p.Prefix = <<>> THEN p.Seq[k] \o p.Suffix
     ELSE IF p.Suffix = <<>> /\ p.Prefix = <<>> THEN p.Seq[k]
     ELSE p.Prefix \o p.Seq[k] \o p.Suffix]

RECURSIVE Flatten(_)
Flatten(ss) == IF ss = <<>> THEN <<>> ELSE Head(ss) \o Flatten(Tail(ss))

\* r := append(rlbls, []string{lbl}...)
AppendLabel(rlbls, lbl) == Append(rlbls, lbl)

\* labels is non-empty (the caller's labels[0] panics otherwise)
RECURSIVE argExpander(_)
argExpander(labels) ==
  IF Len(labels) = 1 THEN [k \in 1..Len(labels[1]) |-> <<labels[1][k]>>]
  ELSE Flatten([k \in 1..Len(labels[1]) |->
                  LET rs == argExpander(Tail(labels))
                  IN [j \in 1..Len(rs) |-> AppendLabel(rs[j], labels[1][k])]])

ArgPatternExpand(a) == argExpander([k \in 1..Len(a) |-> PatternExpand(a[k])])

\* ------------------------------------------------------------------------
\* findPatterns / FindEllipsesPatterns: the pieces between the parser calls
\* ------------------------------------------------------------------------
\* HasBraces looking for opening braces only
HasBraces_OpenOnly(s) == CountPositive(s, openBraces)

HasBraces(s) == CountPositive(s, openBraces) \/ CountPositive(s, closeBraces)

\* lines 228-237: <<patterns returned, error returned>>
BraceCheck(ps, a) ==
  IF \E k \in 1..Len(ps) : HasBraces(ps[k].Prefix) \/ HasBraces(ps[k].Suffix)
  THEN <<<<>>, ErrInvalidEllipsesFormatFn(a)>>
  ELSE <<ps, nil>>

\* ConvertErr leaving the sentinel as it is
ConvertErr_None(e, a) == e

\* ConvertErr relabelling every error
ConvertErr_All(e, a) == IF e.kind # "nil" THEN ErrInvalidEllipsesFormatFn(a) ELSE e

\* lines 176-178
ConvertErr(e, a) == IF e.kind = "errFormat" THEN ErrInvalidEllipsesFormatFn(a) ELSE e

\* lines 198-202: the pattern of a span that has a further span to its left
LoopPattern(pt, sq) == Pattern(<<>>, pt[3], sq)

\* lines 218-222: the pattern of the leftmost span
LastPattern(pt, sq) == Pattern(pt[1], pt[3], sq)

\* AppendPattern putting the new pattern in front
AppendPattern_Prepend(ps, p) == <<p>> \o ps

\* PartialResult dropping what was built
PartialResult_Nil(ps) == <<>>

AppendPattern(ps, p) == Append(ps, p)

\* lines 196 and 215: return patterns, err
PartialResult(ps) == ps

\* ------------------------------------------------------------------------
\* Inputs
\* ------------------------------------------------------------------------
Span(b1, b2) == openBraces \o b1 \o ellipses \o b2 \o closeBraces

\* boundary texts handed to parseEllipsesRange
Boundaries ==
  { <<>>, <<"0">>, <<"1">>, <<"2">>, <<"0", "1">>, <<"1", "0">>, <<"a">>,
    <<"0", "a">>, <<"1", "f">>, <<"2", "0">>, <<"g">>, <<"0", "0", "1">>,
    FormatUint(MaxUint64, 10), FormatUint(MaxUint64, 16) }

RangeTokens ==
  {Span(b1, b2) : b1, b2 \in Boundaries}
    \cup { <<"1">> \o ellipses \o <<"2">>,
           openBraces \o <<"1">> \o ellipses \o <<"2">>,
           Span(<<"1">>, <<"2">> \o ellipses \o <<"3">>) }

\* literal text between the spans of an input of FindEllipsesPatterns
Lits == { <<>>, <<"a">>, <<"{">>, <<"}">>, <<"\n">> }

FindSpans ==
  { Span(<<"1">>, <<"2">>), Span(<<"0", "a">>, <<"0", "b">>),
    Span(<<"4">>, <<"1">>), Span(<<>>, <<"1">>) }

RECURSIVE InputsUpTo(_)
InputsUpTo(n) ==
  IF n = 0 THEN Lits
  ELSE {l \o sp \o rest : l \in Lits, sp \in FindSpans \cup {<<>>}, rest \in InputsUpTo(n - 1)}

\* inputs that hold no complete span
SpanlessInputs ==
  { <<"p", "l", "a", "i", "n">>,
    <<"s">> \o openBraces \o <<"1">> \o ellipses \o <<"2">>,
    <<"s", "1">> \o ellipses \o <<"2">> \o closeBraces,
    openBraces \o <<"1", ".", ".", "2">> \o closeBraces,
    openBraces \o <<"1", ".", ".", ".", ".", "2">> \o closeBraces,
    openBraces \o <<"1", "-">> \o ellipses \o <<"2">> \o closeBraces,
    openBraces \o <<"1">> \o closeBraces }

FindInputs == InputsUpTo(MaxSpans) \cup SpanlessInputs

\* ------------------------------------------------------------------------
\* HasEllipses
\* ------------------------------------------------------------------------
\* the test of one argument, looking for the ellipses only
ArgHasEllipses_EllipsesOnly(a) == CountPositive(a, ellipses)

\* the test of one argument, asking for more than one "..."
ArgHasEllipses_MoreThanOne(a) ==
  LET first == Index(a, ellipses)
  IN  first > 0 /\ Contains(SubSeq(a, first + Len(ellipses), Len(a)), ellipses)

\* the operand of ok && (...) for one argument
ArgHasEllipses(a) ==
  \/ CountPositive(a, ellipses)
  \/ (CountPositive(a, openBraces) /\ CountPositive(a, closeBraces))

\* ok := true; for _, arg := range args { ok = ok && ... }; return ok
RECURSIVE HasEllipsesFrom(_, _, _)
HasEllipsesFrom(as, k, acc) ==
  IF k > Len(as) THEN acc
  ELSE HasEllipsesFrom(as, k + 1, acc /\ ArgHasEllipses(as[k]))

HasEllipses(as) == HasEllipsesFrom(as, 1, TRUE)

\* arguments given to HasEllipses
HasArgs ==
  { <<"a">> \o openBraces \o <<"1">> \o ellipses \o <<"4">> \o closeBraces \o <<"b">>,
    <<"a", "b", "c">>,
    closeBraces \o openBraces,
    openBraces \o closeBraces,
    ellipses,
    openBraces \o <<"a">>,
    <<"a", ".", ".">> \o closeBraces }

RECURSIVE SeqsUpTo(_, _)
SeqsUpTo(S, n) ==
  IF n = 0 THEN {<<>>}
  ELSE LET shorter == SeqsUpTo(S, n - 1)
       IN  shorter \cup {Append(q, x) : q \in shorter, x \in S}

HasInputs == SeqsUpTo(HasArgs, MaxArgs)

\* receivers of Pattern.Expand
ExpandInputs ==
  { Pattern(pre, suf, sq) :
      pre \in {<<>>, <<"a">>},
      suf \in {<<>>, <<"b">>},
      sq \in SeqsUpTo({<<"1">>, <<"0", "2">>}, MaxArgs) }

\* ------------------------------------------------------------------------
\* Package env (src/unnamed/part_001): LookupEnv and what it calls
\* ------------------------------------------------------------------------
webEnvScheme == <<"e", "n", "v">>
webEnvSchemeSecure == <<"e", "n", "v", "+", "t", "l", "s">>

\* the byte 0x00
NUL == "NUL"

Letters == AlnumChars \ {"0", "1", "2", "3", "4", "5", "6", "7", "8", "9"}

\* strings.TrimSpace
RECURSIVE TrimSpace(_)
TrimSpace(s) ==
  IF s # <<>> /\ Head(s) = " " THEN TrimSpace(Tail(s))
  ELSE IF s # <<>> /\ s[Len(s)] = " " THEN TrimSpace(SubSeq(s, 1, Len(s) - 1))
  ELSE s

\* the scheme url.Parse finds: the letters, digits, "+", "-" and "." before
\* the first ":", when they start with a letter
RECURSIVE GetScheme(_, _)
GetScheme(rawURL, k) ==
  IF k > Len(rawURL) THEN [err |-> nil, scheme |-> <<>>]
  ELSE IF rawURL[k] \in Letters THEN GetScheme(rawURL, k + 1)
  ELSE IF rawURL[k] \in {"0", "1", "2", "3", "4", "5", "6", "7", "8", "9", "+", "-", "."}
       THEN IF k = 1 THEN [err |-> nil, scheme |-> <<>>]
            ELSE GetScheme(rawURL, k + 1)
  ELSE IF rawURL[k] = ":"
       THEN IF k = 1 THEN [err |-> [kind |-> "missing protocol scheme"], scheme |-> <<>>]
            ELSE [err |-> nil, scheme |-> SubSeq(rawURL, 1, k - 1)]
  ELSE [err |-> nil, scheme |-> <<>>]

\* what follows "scheme://" in a URL
AfterScheme(rawURL) ==
  LET at == Index(rawURL, <<":", "/", "/">>)
  IN  IF at = 0 THEN <<>> ELSE SubSeq(rawURL, at + 3, Len(rawURL))

\* username and password of fetchHTTPConstituentParts: the groups 2 and 3 of
\* hostKeys when it matches, the URL's user information otherwise
FetchHTTPConstituentParts(rawURL) ==
  LET rest == AfterScheme(rawURL)
      colon == Index(rest, <<":">>)
      tail == IF colon = 0 THEN <<>> ELSE SubSeq(rest, colon + 1, Len(rest))
      at == Index(tail, <<"@">>)
      plainAt == Index(rest, <<"@">>)
  IN  IF colon > 0 /\ at > 0
      THEN [username |-> SubSeq(rest, 1, colon - 1), password |-> SubSeq(tail, 1, at - 1)]
      ELSE IF plainAt > 0
      THEN [username |-> SubSeq(rest, 1, plainAt - 1), password |-> <<>>]
      ELSE [username |-> <<>>, password |-> <<>>]

\* what the network and the signing do for one request: failing before the
\* request is sent, failing while it is made, or answering with a body
Bodies == { <<"v", "1">>, <<"v", "2">>, <<"v", NUL>>, <<>> }

Outcomes ==
  { [stage |-> "sign", body |-> <<>>], [stage |-> "transport", body |-> <<>>] }
    \cup { [stage |-> "ok", body |-> b] : b \in Bodies }

\* getEnvValueFromHTTP(urlStr, envKey) under the outcome net
GetEnvValueFromHTTP(urlStr, net) ==
  LET u == GetScheme(urlStr, 1)
      failed(e, sent) ==
        [v |-> <<>>, user |-> <<>>, pwd |-> <<>>, err |-> e, requested |-> sent]
      parts == FetchHTTPConstituentParts(urlStr)
  IN  IF u.err.kind # "nil" THEN failed(u.err, FALSE)
      ELSE IF u.scheme \notin {webEnvScheme, webEnvSchemeSecure}
      THEN failed([kind |-> "invalid arguments"], FALSE)
      ELSE IF net.stage = "sign" THEN failed([kind |-> "sign"], FALSE)
      ELSE IF net.stage = "transport" THEN failed([kind |-> "transport"], TRUE)
      ELSE [v |-> net.body, user |-> parts.username, pwd |-> parts.password,
            err |-> nil, requested |-> TRUE]

\* os.LookupEnv
OsLookupEnv(env, key) ==
  IF key \in DOMAIN env THEN [v |-> env[key], ok |-> TRUE]
  ELSE [v |-> <<>>, ok |-> FALSE]

\* os.Setenv: EINVAL, and nothing stored, for an empty key, a key holding
\* "=" or the byte 0x00, or a value holding the byte 0x00
Setenv(env, key, value) ==
  IF \/ key = <<>>
     \/ \E k \in 1..Len(key) : key[k] \in {"=", NUL}
     \/ \E k \in 1..Len(value) : value[k] = NUL
  THEN env
  ELSE [k \in DOMAIN env \cup {key} |-> IF k = key THEN value ELSE env[k]]

\* "_" + key
Underscore(key) == <<"_">> \o key

\* the keys LookupEnv is called with
LookupKeys == { <<"K">>, Underscore(<<"K">>) }

\* values of the variable K when the process starts
StartValues ==
  { <<"e", "n", "v", ":", "/", "/", "h">>,
    <<"e", "n", "v", "+", "t", "l", "s", ":", "/", "/", "h">>,
    <<"e", "n", "v", ":", "/", "/", "u", ":", "p", "@", "h">>,
    <<"e", "n", "v", ":", "/", "/", "h", " ">>,
    <<"e", "n", "v", "o", "y">>,
    <<"x">>,
    <<>> }

\* values of the variable _K when the process starts
StartCached == { <<"o", "l", "d">>, <<"e", "n", "v", ":", "/", "/", "h">> }

EmptyEnv == [k \in {} |-> <<>>]

\* the environment the process starts with
StartEnvirons ==
  LET withK == {EmptyEnv} \cup {Setenv(EmptyEnv, <<"K">>, x) : x \in StartValues}
  IN  withK \cup {Setenv(e, Underscore(<<"K">>), c) : e \in withK, c \in StartCached}

NoValue == [some |-> FALSE, v |-> <<>>]

NoTrace ==
  [key |-> <<>>, present |-> FALSE, value |-> <<>>, called |-> FALSE,
   failed |-> FALSE, requested |-> FALSE, reads |-> {}, writes |-> {}]

NoReturn == [v |-> <<>>, user |-> <<>>, pwd |-> <<>>, err |-> nil]

\* ------------------------------------------------------------------------
\* Package wildcard (src/policy/action.go, lines 590-680)
\* ------------------------------------------------------------------------
\* Go strings are sequences of bytes: pattern[0], str[0] and str[1:] work on
\* bytes.  A character outside ASCII is the two bytes of its UTF-8 encoding.
EAcute == <<"c3", "a9">>

RECURSIVE deepMatchRune(_, _, _)
deepMatchRune(str, pat, simple) ==
  IF Len(pat) = 0 THEN Len(str) = 0
  ELSE IF pat[1] = "?"
       THEN IF Len(str) = 0 THEN simple
            ELSE deepMatchRune(Tail(str), Tail(pat), simple)
  ELSE IF pat[1] = "*"
       THEN \/ Len(pat) = 1
            \/ deepMatchRune(str, Tail(pat), simple)
            \/ (Len(str) > 0 /\ deepMatchRune(Tail(str), pat, simple))
  ELSE IF Len(str) = 0 \/ str[1] # pat[1] THEN FALSE
       ELSE deepMatchRune(Tail(str), Tail(pat), simple)

MatchSimple(pat, name) ==
  IF pat = <<>> THEN name = pat
  ELSE IF pat = <<"*">> THEN TRUE
  ELSE deepMatchRune(name, pat, TRUE)

Match(pat, name) ==
  IF pat = <<>> THEN name = pat
  ELSE IF pat = <<"*">> THEN TRUE
  ELSE deepMatchRune(name, pat, FALSE)

\* the loop of MatchAsPatternPrefix from index k (1-based)
RECURSIVE PrefixLoop(_, _, _)
PrefixLoop(pat, text, k) ==
  IF k <= Len(text) /\ k <= Len(pat)
  THEN IF pat[k] = "*" THEN TRUE
       ELSE IF pat[k] = "?" THEN PrefixLoop(pat, text, k + 1)
       ELSE IF pat[k] # text[k] THEN FALSE
       ELSE PrefixLoop(pat, text, k + 1)
  ELSE Len(text) <= Len(pat)

\* MatchAsPatternPrefix stopping at the first "?" as at a "*"
MatchAsPatternPrefix_QuestionStops(pat, text) ==
  LET RECURSIVE Loop(_)
      Loop(k) ==
        IF k <= Len(text) /\ k <= Len(pat)
        THEN IF pat[k] \in {"*", "?"} THEN TRUE
             ELSE IF pat[k] # text[k] THEN FALSE
             ELSE Loop(k + 1)
        ELSE Len(text) <= Len(pat)
  IN  Loop(1)

MatchAsPatternPrefix(pat, text) == PrefixLoop(pat, text, 1)

\* patterns and names of the calls
PatternChars == {"a", "b", "*", "?"}
NameChars == { <<"a">>, <<"b">>, EAcute }
Patterns == SeqsUpTo(PatternChars, MaxLen)
Names == { Flatten(cs) : cs \in SeqsUpTo(NameChars, MaxLen) }

NoCall == [fn |-> "none", pattern |-> <<>>, name |-> <<>>]

\* ------------------------------------------------------------------------
\* argExpander on slices with their storage
\* ------------------------------------------------------------------------
\* A []string is [arr, len, cap]: the first len elements of the array arr of
\* the heap, which has cap elements.  The heap is the sequence of the arrays
\* allocated so far; an element not yet written holds the empty string.

\* the capacity append gives a []string that has to grow from capacity c to
\* hold n elements (below 256 elements, exact size classes up to 8 strings)
GrowCap(c, n) == IF n > 2 * c THEN n ELSE 2 * c

\* []string{x}
NewSlice(hp, x) ==
  [heap |-> Append(hp, <<x>>), slice |-> [arr |-> Len(hp) + 1, len |-> 1, cap |-> 1]]

\* the elements of a slice
Elements(hp, sl) == SubSeq(hp[sl.arr], 1, sl.len)

\* append(sl, x): in place when there is room, in a new array otherwise
AppendSlice(hp, sl, x) ==
  IF sl.len < sl.cap
  THEN [heap |-> [hp EXCEPT ![sl.arr][sl.len + 1] = x],
        slice |-> [arr |-> sl.arr, len |-> sl.len + 1, cap |-> sl.cap]]
  ELSE LET newcap == GrowCap(sl.cap, sl.len + 1)
           array == [k \in 1..newcap |->
                       IF k <= sl.len THEN hp[sl.arr][k]
                       ELSE IF k = sl.len + 1 THEN x
                       ELSE <<>>]
       IN  [heap |-> Append(hp, array),
            slice |-> [arr |-> Len(hp) + 1, len |-> sl.len + 1, cap |-> newcap]]

RECURSIVE argExpanderOn(_, _)

\* lines 112-116: the loop over labels[0] when it is the only list; out
\* holds one slice for each v already taken
RECURSIVE SingleLoop(_, _)
SingleLoop(vs, st) ==
  LET k == Len(st.out) + 1
  IN  IF k > Len(vs) THEN st
      ELSE LET made == NewSlice(st.heap, vs[k])
           IN  SingleLoop(vs, [heap |-> made.heap, out |-> Append(st.out, made.slice)])

\* lines 120-123: the loop over rs for one lbl; out held base slices when
\* the loop began and holds one more for each rlbls already taken
RECURSIVE InnerLoop(_, _, _, _)
InnerLoop(rs, base, lbl, st) ==
  LET j == Len(st.out) - base + 1
  IN  IF j > Len(rs) THEN st
      ELSE LET r == AppendSlice(st.heap, rs[j], lbl)
           IN  InnerLoop(rs, base, lbl, [heap |-> r.heap, out |-> Append(st.out, r.slice)])

\* one lbl after the other, each appended to the same slices rs
RECURSIVE HoistedIter(_, _, _, _)
HoistedIter(labels, rs, k, st) ==
  IF k > Len(labels[1]) THEN st
  ELSE HoistedIter(labels, rs, k + 1, InnerLoop(rs, Len(st.out), labels[1][k], st))

\* the loop over labels[0] with rs computed once, before the loop
OuterLoop_Hoisted(labels, st) ==
  LET sub == argExpanderOn(Tail(labels), st.heap)
  IN  HoistedIter(labels, sub.out, 1, [heap |-> sub.heap, out |-> st.out])

\* lines 118-124 from the k-th lbl on: rs is computed for every lbl
RECURSIVE OuterIter(_, _, _)
OuterIter(labels, k, st) ==
  IF k > Len(labels[1]) THEN st
  ELSE LET sub == argExpanderOn(Tail(labels), st.heap)
           kept == [heap |-> sub.heap, out |-> st.out]
       IN  IF sub.out = <<>>      \* nothing to range over
           THEN OuterIter(labels, k + 1, kept)
           ELSE OuterIter(labels, k + 1,
                          InnerLoop(sub.out, Len(st.out), labels[1][k], kept))

\* lines 118-124: the loop over labels[0]
OuterLoop(labels, st) == OuterIter(labels, 1, st)

\* argExpander(labels) on the heap hp: the heap it leaves and the slices of out
argExpanderOn(labels, hp) ==
  IF Len(labels) = 1 THEN SingleLoop(labels[1], [heap |-> hp, out |-> <<>>])
  ELSE OuterLoop(labels, [heap |-> hp, out |-> <<>>])

\* the j-th label of the n-th list
LabelOf(n, j) == <<HexDigits[n + 1], HexDigits[10 + j]>>

\* the k-th list, of n labels
ListOf(k, n) == [j \in 1..n |-> LabelOf(k, j)]

\* the arguments of argExpander: k lists of up to MaxChoices labels each
RECURSIVE ListsOfLen(_)
ListsOfLen(k) ==
  IF k = 0 THEN {<<>>}
  ELSE {Append(q, ListOf(k, n)) : q \in ListsOfLen(k - 1), n \in 0..MaxChoices}

ExpanderInputs == UNION {ListsOfLen(k) : k \in 1..MaxLists}

\* ------------------------------------------------------------------------
\* Package policy (src/policy/action.go, lines 28-336): Action
\* ------------------------------------------------------------------------
\* the Action constants of lines 30-214, by their names
Actions ==
  [ AbortMultipartUploadAction |-> <<"s", "3", ":", "A", "b", "o", "r", "t",
        "M", "u", "l", "t", "i", "p", "a", "r", "t", "U", "p", "l", "o", "a",
        "d">>,
    CreateBucketAction |-> <<"s", "3", ":", "C", "r", "e", "a", "t", "e",
        "B", "u", "c", "k", "e", "t">>,
    DeleteBucketAction |-> <<"s", "3", ":", "D", "e", "l", "e", "t", "e",
        "B", "u", "c", "k", "e", "t">>,
    ForceDeleteBucketAction |-> <<"s", "3", ":", "F", "o", "r", "c", "e",
        "D", "e", "l", "e", "t", "e", "B", "u", "c", "k", "e", "t">>,
    DeleteBucketPolicyAction |-> <<"s", "3", ":", "D", "e", "l", "e", "t",
        "e", "B", "u", "c", "k", "e", "t", "P", "o", "l", "i", "c", "y">>,
    DeleteBucketCorsAction |-> <<"s", "3", ":", "D", "e", "l", "e", "t", "e",
        "B", "u", "c", "k", "e", "t", "C", "o", "r", "s">>,
    DeleteObjectAction |-> <<"s", "3", ":", "D", "e", "l", "e", "t", "e",
        "O", "b", "j", "e", "c", "t">>,
    GetBucketLocationAction |-> <<"s", "3", ":", "G", "e", "t", "B", "u",
        "c", "k", "e", "t", "L", "o", "c", "a", "t", "i", "o", "n">>,
    GetBucketNotificationAction |-> <<"s", "3", ":", "G", "e", "t", "B", "u",
        "c", "k", "e", "t", "N", "o", "t", "i", "f", "i", "c", "a", "t", "i",
        "o", "n">>,
    GetBucketPolicyAction |-> <<"s", "3", ":", "G", "e", "t", "B", "u", "c",
        "k", "e", "t", "P", "o", "l", "i", "c", "y">>,
    GetBucketCorsAction |-> <<"s", "3", ":", "G", "e", "t", "B", "u", "c",
        "k", "e", "t", "C", "o", "r", "s">>,
    GetObjectAction |-> <<"s", "3", ":", "G", "e", "t", "O", "b", "j", "e",
        "c", "t">>,
    GetObjectAttributesAction |-> <<"s", "3", ":", "G", "e", "t", "O", "b",
        "j", "e", "c", "t", "A", "t", "t", "r", "i", "b", "u", "t", "e",
        "s">>,
    HeadBucketAction |-> <<"s", "3", ":", "H", "e", "a", "d", "B", "u", "c",
        "k", "e", "t">>,
    ListAllMyBucketsAction |-> <<"s", "3", ":", "L", "i", "s", "t", "A", "l",
        "l", "M", "y", "B", "u", "c", "k", "e", "t", "s">>,
    ListBucketAction |-> <<"s", "3", ":", "L", "i", "s", "t", "B", "u", "c",
        "k", "e", "t">>,
    GetBucketPolicyStatusAction |-> <<"s", "3", ":", "G", "e", "t", "B", "u",
        "c", "k", "e", "t", "P", "o", "l", "i", "c", "y", "S", "t", "a", "t",
        "u", "s">>,
    ListBucketVersionsAction |-> <<"s", "3", ":", "L", "i", "s", "t", "B",
        "u", "c", "k", "e", "t", "V", "e", "r", "s", "i", "o", "n", "s">>,
    ListBucketMultipartUploadsAction |-> <<"s", "3", ":", "L", "i", "s", "t",
        "B", "u", "c", "k", "e", "t", "M", "u", "l", "t", "i", "p", "a", "r",
        "t", "U", "p", "l", "o", "a", "d", "s">>,
    ListenNotificationAction |-> <<"s", "3", ":", "L", "i", "s", "t", "e",
        "n", "N", "o", "t", "i", "f", "i", "c", "a", "t", "i", "o", "n">>,
    ListenBucketNotificationAction |-> <<"s", "3", ":", "L", "i", "s", "t",
        "e", "n", "B", "u", "c", "k", "e", "t", "N", "o", "t", "i", "f", "i",
        "c", "a", "t", "i", "o", "n">>,
    ListMultipartUploadPartsAction |-> <<"s", "3", ":", "L", "i", "s", "t",
        "M", "u", "l", "t", "i", "p", "a", "r", "t", "U", "p", "l", "o", "a",
        "d", "P", "a", "r", "t", "s">>,
    PutBucketLifecycleAction |-> <<"s", "3", ":", "P", "u", "t", "L", "i",
        "f", "e", "c", "y", "c", "l", "e", "C", "o", "n", "f", "i", "g", "u",
        "r", "a", "t", "i", "o", "n">>,
    GetBucketLifecycleAction |-> <<"s", "3", ":", "G", "e", "t", "L", "i",
        "f", "e", "c", "y", "c", "l", "e", "C", "o", "n", "f", "i", "g", "u",
        "r", "a", "t", "i", "o", "n">>,
    PutBucketNotificationAction |-> <<"s", "3", ":", "P", "u", "t", "B", "u",
        "c", "k", "e", "t", "N", "o", "t", "i", "f", "i", "c", "a", "t", "i",
        "o", "n">>,
    PutBucketPolicyAction |-> <<"s", "3", ":", "P", "u", "t", "B", "u", "c",
        "k", "e", "t", "P", "o", "l", "i", "c", "y">>,
    PutBucketCorsAction |-> <<"s", "3", ":", "P", "u", "t", "B", "u", "c",
        "k", "e", "t", "C", "o", "r", "s">>,
    PutObjectAction |-> <<"s", "3", ":", "P", "u", "t", "O", "b", "j", "e",
        "c", "t">>,
    DeleteObjectVersionAction |-> <<"s", "3", ":", "D", "e", "l", "e", "t",
        "e", "O", "b", "j", "e", "c", "t", "V", "e", "r", "s", "i", "o",
        "n">>,
    DeleteObjectVersionTaggingAction |-> <<"s", "3", ":", "D", "e", "l", "e",
        "t", "e", "O", "b", "j", "e", "c", "t", "V", "e", "r", "s", "i", "o",
        "n", "T", "a", "g", "g", "i", "n", "g">>,
    GetObjectVersionAction |-> <<"s", "3", ":", "G", "e", "t", "O", "b", "j",
        "e", "c", "t", "V", "e", "r", "s", "i", "o", "n">>,
    GetObjectVersionAttributesAction |-> <<"s", "3", ":", "G", "e", "t", "O",
        "b", "j", "e", "c", "t", "V", "e", "r", "s", "i", "o", "n", "A", "t",
        "t", "r", "i", "b", "u", "t", "e", "s">>,
    GetObjectVersionTaggingAction |-> <<"s", "3", ":", "G", "e", "t", "O",
        "b", "j", "e", "c", "t", "V", "e", "r", "s", "i", "o", "n", "T", "a",
        "g", "g", "i", "n", "g">>,
    PutObjectVersionTaggingAction |-> <<"s", "3", ":", "P", "u", "t", "O",
        "b", "j", "e", "c", "t", "V", "e", "r", "s", "i", "o", "n", "T", "a",
        "g", "g", "i", "n", "g">>,
    BypassGovernanceRetentionAction |-> <<"s", "3", ":", "B", "y", "p", "a",
        "s", "s", "G", "o", "v", "e", "r", "n", "a", "n", "c", "e", "R", "e",
        "t", "e", "n", "t", "i", "o", "n">>,
    PutObjectRetentionAction |-> <<"s", "3", ":", "P", "u", "t", "O", "b",
        "j", "e", "c", "t", "R", "e", "t", "e", "n", "t", "i", "o", "n">>,
    GetObjectRetentionAction |-> <<"s", "3", ":", "G", "e", "t", "O", "b",
        "j", "e", "c", "t", "R", "e", "t", "e", "n", "t", "i", "o", "n">>,
    GetObjectLegalHoldAction |-> <<"s", "3", ":", "G", "e", "t", "O", "b",
        "j", "e", "c", "t", "L", "e", "g", "a", "l", "H", "o", "l", "d">>,
    PutObjectLegalHoldAction |-> <<"s", "3", ":", "P", "u", "t", "O", "b",
        "j", "e", "c", "t", "L", "e", "g", "a", "l", "H", "o", "l", "d">>,
    GetBucketObjectLockConfigurationAction |-> <<"s", "3", ":", "G", "e",
        "t", "B", "u", "c", "k", "e", "t", "O", "b", "j", "e", "c", "t", "L",
        "o", "c", "k", "C", "o", "n", "f", "i", "g", "u", "r", "a", "t", "i",
        "o", "n">>,
    PutBucketObjectLockConfigurationAction |-> <<"s", "3", ":", "P", "u",
        "t", "B", "u", "c", "k", "e", "t", "O", "b", "j", "e", "c", "t", "L",
        "o", "c", "k", "C", "o", "n", "f", "i", "g", "u", "r", "a", "t", "i",
        "o", "n">>,
    GetBucketTaggingAction |-> <<"s", "3", ":", "G", "e", "t", "B", "u", "c",
        "k", "e", "t", "T", "a", "g", "g", "i", "n", "g">>,
    PutBucketTaggingAction |-> <<"s", "3", ":", "P", "u", "t", "B", "u", "c",
        "k", "e", "t", "T", "a", "g", "g", "i", "n", "g">>,
    GetObjectTaggingAction |-> <<"s", "3", ":", "G", "e", "t", "O", "b", "j",
        "e", "c", "t", "T", "a", "g", "g", "i", "n", "g">>,
    PutObjectTaggingAction |-> <<"s", "3", ":", "P", "u", "t", "O", "b", "j",
        "e", "c", "t", "T", "a", "g", "g", "i", "n", "g">>,
    DeleteObjectTaggingAction |-> <<"s", "3", ":", "D", "e", "l", "e", "t",
        "e", "O", "b", "j", "e", "c", "t", "T", "a", "g", "g", "i", "n",
        "g">>,
    PutBucketEncryptionAction |-> <<"s", "3", ":", "P", "u", "t", "E", "n",
        "c", "r", "y", "p", "t", "i", "o", "n", "C", "o", "n", "f", "i", "g",
        "u", "r", "a", "t", "i", "o", "n">>,
    GetBucketEncryptionAction |-> <<"s", "3", ":", "G", "e", "t", "E", "n",
        "c", "r", "y", "p", "t", "i", "o", "n", "C", "o", "n", "f", "i", "g",
        "u", "r", "a", "t", "i", "o", "n">>,
    PutBucketVersioningAction |-> <<"s", "3", ":", "P", "u", "t", "B", "u",
        "c", "k", "e", "t", "V", "e", "r", "s", "i", "o", "n", "i", "n",
        "g">>,
    GetBucketVersioningAction |-> <<"s", "3", ":", "G", "e", "t", "B", "u",
        "c", "k", "e", "t", "V", "e", "r", "s", "i", "o", "n", "i", "n",
        "g">>,
    GetReplicationConfigurationAction |-> <<"s", "3", ":", "G", "e", "t",
        "R", "e", "p", "l", "i", "c", "a", "t", "i", "o", "n", "C", "o", "n",
        "f", "i", "g", "u", "r", "a", "t", "i", "o", "n">>,
    PutReplicationConfigurationAction |-> <<"s", "3", ":", "P", "u", "t",
        "R", "e", "p", "l", "i", "c", "a", "t", "i", "o", "n", "C", "o", "n",
        "f", "i", "g", "u", "r", "a", "t", "i", "o", "n">>,
    ReplicateObjectAction |-> <<"s", "3", ":", "R", "e", "p", "l", "i", "c",
        "a", "t", "e", "O", "b", "j", "e", "c", "t">>,
    ReplicateDeleteAction |-> <<"s", "3", ":", "R", "e", "p", "l", "i", "c",
        "a", "t", "e", "D", "e", "l", "e", "t", "e">>,
    ReplicateTagsAction |-> <<"s", "3", ":", "R", "e", "p", "l", "i", "c",
        "a", "t", "e", "T", "a", "g", "s">>,
    GetObjectVersionForReplicationAction |-> <<"s", "3", ":", "G", "e", "t",
        "O", "b", "j", "e", "c", "t", "V", "e", "r", "s", "i", "o", "n", "F",
        "o", "r", "R", "e", "p", "l", "i", "c", "a", "t", "i", "o", "n">>,
    RestoreObjectAction |-> <<"s", "3", ":", "R", "e", "s", "t", "o", "r",
        "e", "O", "b", "j", "e", "c", "t">>,
    ResetBucketReplicationStateAction |-> <<"s", "3", ":", "R", "e", "s",
        "e", "t", "B", "u", "c", "k", "e", "t", "R", "e", "p", "l", "i", "c",
        "a", "t", "i", "o", "n", "S", "t", "a", "t", "e">>,
    PutObjectFanOutAction |-> <<"s", "3", ":", "P", "u", "t", "O", "b", "j",
        "e", "c", "t", "F", "a", "n", "O", "u", "t">>,
    CreateSessionAction |-> <<"s", "3", "e", "x", "p", "r", "e", "s", "s",
        ":", "C", "r", "e", "a", "t", "e", "S", "e", "s", "s", "i", "o",
        "n">>,
    AllActions |-> <<"s", "3", ":", "*">> ]

\* List of all supported actions.
supportedActions ==
  { Actions.AbortMultipartUploadAction, Actions.CreateBucketAction,
    Actions.DeleteBucketAction, Actions.ForceDeleteBucketAction,
    Actions.DeleteBucketPolicyAction, Actions.DeleteBucketCorsAction,
    Actions.DeleteObjectAction, Actions.GetBucketLocationAction,
    Actions.GetBucketNotificationAction, Actions.GetBucketPolicyAction,
    Actions.GetBucketCorsAction, Actions.GetObjectAction,
    Actions.HeadBucketAction, Actions.ListAllMyBucketsAction,
    Actions.ListBucketAction, Actions.GetBucketPolicyStatusAction,
    Actions.ListBucketVersionsAction,
    Actions.ListBucketMultipartUploadsAction,
    Actions.ListenNotificationAction,
    Actions.ListenBucketNotificationAction,
    Actions.ListMultipartUploadPartsAction,
    Actions.PutBucketLifecycleAction, Actions.GetBucketLifecycleAction,
    Actions.PutBucketNotificationAction, Actions.PutBucketPolicyAction,
    Actions.PutBucketCorsAction, Actions.PutObjectAction,
    Actions.BypassGovernanceRetentionAction,
    Actions.PutObjectRetentionAction, Actions.GetObjectRetentionAction,
    Actions.GetObjectLegalHoldAction, Actions.PutObjectLegalHoldAction,
    Actions.GetBucketObjectLockConfigurationAction,
    Actions.PutBucketObjectLockConfigurationAction,
    Actions.GetBucketTaggingAction, Actions.PutBucketTaggingAction,
    Actions.GetObjectVersionAction, Actions.GetObjectAttributesAction,
    Actions.GetObjectVersionAttributesAction,
    Actions.GetObjectVersionTaggingAction,
    Actions.DeleteObjectVersionAction,
    Actions.DeleteObjectVersionTaggingAction,
    Actions.PutObjectVersionTaggingAction, Actions.GetObjectTaggingAction,
    Actions.PutObjectTaggingAction, Actions.DeleteObjectTaggingAction,
    Actions.PutBucketEncryptionAction, Actions.GetBucketEncryptionAction,
    Actions.PutBucketVersioningAction, Actions.GetBucketVersioningAction,
    Actions.GetReplicationConfigurationAction,
    Actions.PutReplicationConfigurationAction,
    Actions.ReplicateObjectAction, Actions.ReplicateDeleteAction,
    Actions.ReplicateTagsAction,
    Actions.GetObjectVersionForReplicationAction,
    Actions.RestoreObjectAction, Actions.ResetBucketReplicationStateAction,
    Actions.PutObjectFanOutAction, Actions.CreateSessionAction,
    Actions.AllActions }

\* List of all supported object actions.
supportedObjectActions ==
  { Actions.AllActions, Actions.AbortMultipartUploadAction,
    Actions.DeleteObjectAction, Actions.GetObjectAction,
    Actions.ListMultipartUploadPartsAction, Actions.PutObjectAction,
    Actions.BypassGovernanceRetentionAction,
    Actions.PutObjectRetentionAction, Actions.GetObjectRetentionAction,
    Actions.PutObjectLegalHoldAction, Actions.GetObjectLegalHoldAction,
    Actions.GetObjectTaggingAction, Actions.PutObjectTaggingAction,
    Actions.DeleteObjectTaggingAction, Actions.GetObjectVersionAction,
    Actions.GetObjectVersionTaggingAction,
    Actions.DeleteObjectVersionAction,
    Actions.DeleteObjectVersionTaggingAction,
    Actions.PutObjectVersionTaggingAction, Actions.ReplicateObjectAction,
    Actions.ReplicateDeleteAction, Actions.ReplicateTagsAction,
    Actions.GetObjectVersionForReplicationAction,
    Actions.RestoreObjectAction, Actions.ResetBucketReplicationStateAction,
    Actions.PutObjectFanOutAction, Actions.GetObjectAttributesAction,
    Actions.GetObjectVersionAttributesAction }

\* action.Match(a): the action is the pattern, a the name
ActionMatch(act, a) == Match(act, a)

IsObjectAction(act) == \E supAction \in supportedObjectActions : ActionMatch(act, supAction)

\* IsValid looking the action up in the table instead of matching it
IsValid_Lookup(act) == act \in supportedActions

IsValid(act) == \E supAction \in supportedActions : ActionMatch(act, supAction)

\* actions written in policies: patterns and names outside the tables
WrittenActions ==
  { <<"*">>,
    <<"s", "3", ":", "G", "e", "t", "*">>,
    <<"s", "3", ":", "*", "O", "b", "j", "e", "c", "t">>,
    <<"s", "3", ":", "P", "u", "t", "?", "b", "j", "e", "c", "t">>,
    <<"s", "3", ":", "G", "e", "t", "B", "u", "c", "k", "e", "t", "*">>,
    <<"s", "3", ":", "L", "i", "s", "t", "*", "P", "a", "r", "t", "s">>,
    <<"s", "3", ":", "F", "o", "o">>,
    <<>>,
    <<"s", "3", "e", "x", "p", "r", "e", "s", "s", ":", "*">>,
    <<"a", "d", "m", "i", "n", ":", "*">>,
    <<"?", "3", ":", "*">>,
    <<"s", "3", ":", "G", "e", "t", "O", "b", "j", "e", "c", "t", "?">>,
    <<"S", "3", ":", "G", "e", "t", "O", "b", "j", "e", "c", "t">>,
    <<"s", "3", ":", "*", "B", "u", "c", "k", "e", "t", "*">> }

ActionInputs == supportedActions \cup WrittenActions

\* ------------------------------------------------------------------------
\* State
\* ------------------------------------------------------------------------
VARIABLES
  pc,            \* position of the one thread of control
  arg,           \* FindEllipsesPatterns: its argument
  parts,         \* findPatterns: parts
  patternFound,  \* findPatterns: patternFound
  patterns,      \* findPatterns: patterns
  v,             \* FindEllipsesPatterns: the ArgPattern returned
  err,           \* FindEllipsesPatterns: the error returned
  pattern,       \* parseEllipsesRange: its argument
  site,          \* parseEllipsesRange: where it was called from
  ellipsesRange, \* parseEllipsesRange: ellipsesRange
  start,         \* parseEllipsesRange: start
  end,           \* parseEllipsesRange: end
  hexadecimal,   \* parseEllipsesRange: hexadecimal
  i,             \* parseEllipsesRange: the loop counter
  seq,           \* parseEllipsesRange: seq
  rangeErr,      \* parseEllipsesRange: the error returned
  expanded,      \* the result of ArgPattern.Expand on v
  args,          \* HasEllipses: its arguments
  ok,            \* HasEllipses: the value returned
  receiver,      \* Pattern.Expand: its receiver p
  expandLabels,  \* Pattern.Expand: the labels returned
  environ,       \* the environment of the process
  ret,           \* LookupEnv: the four values returned
  trace,         \* LookupEnv: what the last call met and did
  fetched,       \* for each key, the value of its last successful fetch
  call,          \* package wildcard: the function called and its arguments
  matched,       \* package wildcard: the value returned
  lists,         \* argExpander: its argument labels
  out,           \* argExpander: the slices of the result out
  heap,          \* argExpander: the arrays the slices point into
  action,        \* package policy: the Action tested
  objectAction,  \* package policy: what IsObjectAction returned
  valid          \* package policy: what IsValid returned

findVars == <<arg, parts, patternFound, patterns, v, err>>
rangeVars == <<pattern, site, ellipsesRange, start, end, hexadecimal, i, seq, rangeErr>>
hasVars == <<args, ok>>
expandVars == <<receiver, expandLabels>>
envVars == <<environ, ret, trace, fetched>>
wildcardVars == <<call, matched>>
expanderVars == <<lists, out, heap>>
policyVars == <<action, objectAction, valid>>
laterVars == <<expanderVars, policyVars>>
outerVars == <<hasVars, expandVars, envVars, wildcardVars, laterVars>>
vars == <<pc, findVars, rangeVars, expanded, outerVars>>

InitEllipses ==
  /\ pc = "idle"
  /\ arg = <<>>
  /\ parts = <<>>
  /\ patternFound = FALSE
  /\ patterns = <<>>
  /\ v = <<>>
  /\ err = nil
  /\ pattern = <<>>
  /\ site = "none"
  /\ ellipsesRange = <<>>
  /\ start = 0
  /\ end = 0
  /\ hexadecimal = FALSE
  /\ i = 0
  /\ seq = <<>>
  /\ rangeErr = nil
  /\ expanded = <<>>
  /\ args = <<>>
  /\ ok = TRUE
  /\ receiver = Pattern(<<>>, <<>>, <<>>)
  /\ expandLabels = <<>>

InitEnvOn(e) ==
  /\ environ = e
  /\ ret = NoReturn
  /\ trace = NoTrace
  /\ fetched = [k \in LookupKeys |-> NoValue]

InitWildcard ==
  /\ call = NoCall
  /\ matched = FALSE

InitLater ==
  /\ lists = <<>>
  /\ out = <<>>
  /\ heap = <<>>
  /\ action = <<>>
  /\ objectAction = FALSE
  /\ valid = FALSE

Init ==
  /\ InitEllipses
  /\ InitEnvOn(EmptyEnv)
  /\ InitWildcard
  /\ InitLater

\* ------------------------------------------------------------------------
\* Steps
\* ------------------------------------------------------------------------
\* FindEllipsesPatterns(a) up to the loop of findPatterns (lines 174-192)
FindEllipsesPatterns(a) ==
  /\ pc = "idle"
  /\ arg' = a
  /\ LET m == FindStringSubmatch(a)
     IN IF Len(m) = 0
        THEN /\ parts' = m
             /\ v' = <<>>
             /\ err' = ConvertErr(errFormat, a)
             /\ pc' = "done"
             /\ UNCHANGED patternFound
        ELSE /\ parts' = Tail(m)
             /\ patternFound' = MatchString(m[2])
             /\ pc' = "for"
             /\ UNCHANGED <<v, err>>
  /\ UNCHANGED outerVars
  /\ UNCHANGED <<patterns, rangeVars, expanded>>

\* a direct call of parseEllipsesRange(tok)
CallParseEllipsesRange(tok) ==
  /\ pc = "idle"
  /\ pattern' = tok
  /\ site' = "direct"
  /\ pc' = "call"
  /\ UNCHANGED outerVars
  /\ UNCHANGED <<findVars, ellipsesRange, start, end, hexadecimal, i, seq, rangeErr, expanded>>

\* the loop condition of line 193 and the call of line 194
ForLoop ==
  /\ pc = "for"
  /\ IF patternFound
     THEN /\ pattern' = parts[2]
          /\ site' = "for"
          /\ pc' = "call"
     ELSE /\ pc' = "tail"
          /\ UNCHANGED <<pattern, site>>
  /\ UNCHANGED outerVars
  /\ UNCHANGED <<findVars, ellipsesRange, start, end, hexadecimal, i, seq, rangeErr, expanded>>

\* line 212 and the call of line 213
TailSpan ==
  /\ pc = "tail"
  /\ IF Len(parts) > 0
     THEN /\ pattern' = parts[2]
          /\ site' = "tail"
          /\ pc' = "call"
          /\ UNCHANGED <<v, err>>
     ELSE /\ v' = BraceCheck(patterns, arg)[1]
          /\ err' = ConvertErr(BraceCheck(patterns, arg)[2], arg)
          /\ pc' = "done"
          /\ UNCHANGED <<pattern, site>>
  /\ UNCHANGED outerVars
  /\ UNCHANGED <<arg, parts, patternFound, patterns, ellipsesRange, start, end,
                 hexadecimal, i, seq, rangeErr, expanded>>

\* parseEllipsesRange, lines 43-82
ParseEllipsesRangeEnter ==
  /\ pc = "call"
  /\ LET h == RangeHeader(pattern)
     IN /\ ellipsesRange' = h.ellipsesRange
        /\ start' = h.start
        /\ end' = h.end
        /\ hexadecimal' = h.hexadecimal
        /\ i' = h.start
        /\ seq' = <<>>
        /\ rangeErr' = h.err
        /\ pc' = IF h.err.kind # "nil" THEN "ret" ELSE "label"
  /\ UNCHANGED outerVars
  /\ UNCHANGED <<findVars, pattern, site, expanded>>

\* parseEllipsesRange, one test of the loop of lines 83-99
LabelLoop ==
  /\ pc = "label"
  /\ IF i <= end
     THEN /\ Len(seq) < MaxSeqLen
          /\ seq' = Append(seq, Label(ellipsesRange, hexadecimal, i))
          /\ i' = Incr(i)
          /\ UNCHANGED pc
     ELSE /\ pc' = "ret"
          /\ UNCHANGED <<i, seq>>
  /\ UNCHANGED outerVars
  /\ UNCHANGED <<findVars, pattern, site, ellipsesRange, start, end, hexadecimal,
                 rangeErr, expanded>>

\* lines 195-210, after the call of line 194 returned
ReturnFor ==
  /\ pc = "ret"
  /\ site = "for"
  /\ IF rangeErr.kind # "nil"
     THEN /\ v' = PartialResult(patterns)
          /\ err' = ConvertErr(rangeErr, arg)
          /\ pc' = "done"
          /\ UNCHANGED <<parts, patternFound, patterns>>
     ELSE /\ patterns' = AppendPattern(patterns, LoopPattern(parts, seq))
          /\ LET m == FindStringSubmatch(parts[1])
             IN IF Len(m) > 0
                THEN /\ parts' = Tail(m)
                     /\ patternFound' = MatchString(m[2])
                     /\ pc' = "for"
                ELSE /\ parts' = m
                     /\ pc' = "tail"
                     /\ UNCHANGED patternFound
          /\ UNCHANGED <<v, err>>
  /\ UNCHANGED outerVars
  /\ UNCHANGED <<arg, rangeVars, expanded>>

\* lines 214-237, after the call of line 213 returned
ReturnTail ==
  /\ pc = "ret"
  /\ site = "tail"
  /\ IF rangeErr.kind # "nil"
     THEN /\ v' = PartialResult(patterns)
          /\ err' = ConvertErr(rangeErr, arg)
          /\ UNCHANGED patterns
     ELSE LET ps == AppendPattern(patterns, LastPattern(parts, seq))
          IN /\ patterns' = ps
             /\ v' = BraceCheck(ps, arg)[1]
             /\ err' = ConvertErr(BraceCheck(ps, arg)[2], arg)
  /\ pc' = "done"
  /\ UNCHANGED outerVars
  /\ UNCHANGED <<arg, parts, patternFound, rangeVars, expanded>>

\* the direct call returned
ReturnDirect ==
  /\ pc = "ret"
  /\ site = "direct"
  /\ pc' = "rangeDone"
  /\ UNCHANGED outerVars
  /\ UNCHANGED <<findVars, rangeVars, expanded>>

\* ArgPattern.Expand on the result of a successful FindEllipsesPatterns
Expand ==
  /\ pc = "done"
  /\ err.kind = "nil"
  /\ IF Len(v) = 0
     THEN /\ pc' = "panic"
          /\ UNCHANGED expanded
     ELSE /\ expanded' = ArgPatternExpand(v)
          /\ pc' = "expanded"
  /\ UNCHANGED outerVars
  /\ UNCHANGED <<findVars, rangeVars>>

\* HasEllipses(as...)
CallHasEllipses(as) ==
  /\ pc = "idle"
  /\ args' = as
  /\ ok' = HasEllipses(as)
  /\ pc' = "hasEllipses"
  /\ UNCHANGED <<findVars, rangeVars, expanded, expandVars, envVars, wildcardVars,
               laterVars>>

\* p.Expand()
CallPatternExpand(p) ==
  /\ pc = "idle"
  /\ receiver' = p
  /\ expandLabels' = PatternExpand(p)
  /\ pc' = "patternExpanded"
  /\ UNCHANGED <<findVars, rangeVars, expanded, hasVars, envVars, wildcardVars,
               laterVars>>

Next ==
  \/ (pc = "idle" /\ \E a \in FindInputs : FindEllipsesPatterns(a))
  \/ (pc = "idle" /\ \E as \in HasInputs : CallHasEllipses(as))
  \/ (pc = "idle" /\ \E p \in ExpandInputs : CallPatternExpand(p))
  \/ (pc = "idle" /\ \E tok \in RangeTokens : CallParseEllipsesRange(tok))
  \/ ForLoop
  \/ TailSpan
  \/ ParseEllipsesRangeEnter
  \/ LabelLoop
  \/ ReturnFor
  \/ ReturnTail
  \/ ReturnDirect
  \/ Expand

Spec == Init /\ [][Next]_vars

\* ------------------------------------------------------------------------
\* Package env: LookupEnv
\* ------------------------------------------------------------------------
\* LookupEnv(key), the remote side behaving as net
LookupEnv(key, net) ==
  LET look == OsLookupEnv(environ, key)
  IN
  /\ pc \in {"idle", "lookupEnv"}
  /\ pc' = "lookupEnv"
  /\ IF look.ok /\ HasPrefix(look.v, webEnvScheme)
     THEN LET r == GetEnvValueFromHTTP(TrimSpace(look.v), net)
              cached == OsLookupEnv(environ, Underscore(key))
          IN  IF r.err.kind # "nil"
              THEN /\ ret' = [v |-> cached.v, user |-> r.user, pwd |-> r.pwd,
                              err |-> IF cached.ok THEN nil ELSE r.err]
                   /\ trace' = [key |-> key, present |-> TRUE, value |-> look.v,
                                called |-> TRUE, failed |-> TRUE,
                                requested |-> r.requested,
                                reads |-> {key, Underscore(key)}, writes |-> {}]
                   /\ UNCHANGED <<environ, fetched>>
              ELSE /\ environ' = Setenv(environ, Underscore(key), r.v)
                   /\ ret' = [v |-> r.v, user |-> r.user, pwd |-> r.pwd, err |-> nil]
                   /\ trace' = [key |-> key, present |-> TRUE, value |-> look.v,
                                called |-> TRUE, failed |-> FALSE,
                                requested |-> r.requested,
                                reads |-> {key}, writes |-> {Underscore(key)}]
                   /\ fetched' = [fetched EXCEPT ![key] = [some |-> TRUE, v |-> r.v]]
     ELSE /\ ret' = [v |-> look.v, user |-> <<>>, pwd |-> <<>>, err |-> nil]
          /\ trace' = [key |-> key, present |-> look.ok, value |-> look.v,
                       called |-> FALSE, failed |-> FALSE, requested |-> FALSE,
                       reads |-> {key}, writes |-> {}]
          /\ UNCHANGED <<environ, fetched>>
  /\ UNCHANGED <<findVars, rangeVars, expanded, hasVars, expandVars, wildcardVars,
               laterVars>>

InitEnv ==
  /\ InitEllipses
  /\ \E e \in StartEnvirons : InitEnvOn(e)
  /\ InitWildcard
  /\ InitLater

NextEnv == \E key \in LookupKeys : \E net \in Outcomes : LookupEnv(key, net)

SpecEnv == InitEnv /\ [][NextEnv]_vars

\* ------------------------------------------------------------------------
\* Package wildcard: the three exported matchers
\* ------------------------------------------------------------------------
CallMatch(pat, name) ==
  /\ pc = "idle"
  /\ call' = [fn |-> "Match", pattern |-> pat, name |-> name]
  /\ matched' = Match(pat, name)
  /\ pc' = "wildcard"
  /\ UNCHANGED <<findVars, rangeVars, expanded, hasVars, expandVars, envVars,
               laterVars>>

CallMatchSimple(pat, name) ==
  /\ pc = "idle"
  /\ call' = [fn |-> "MatchSimple", pattern |-> pat, name |-> name]
  /\ matched' = MatchSimple(pat, name)
  /\ pc' = "wildcard"
  /\ UNCHANGED <<findVars, rangeVars, expanded, hasVars, expandVars, envVars,
               laterVars>>

CallMatchAsPatternPrefix(pat, text) ==
  /\ pc = "idle"
  /\ call' = [fn |-> "MatchAsPatternPrefix", pattern |-> pat, name |-> text]
  /\ matched' = MatchAsPatternPrefix(pat, text)
  /\ pc' = "wildcard"
  /\ UNCHANGED <<findVars, rangeVars, expanded, hasVars, expandVars, envVars,
               laterVars>>

NextWildcard ==
  \/ (pc = "idle" /\ \E pat \in Patterns : \E name \in Names : CallMatch(pat, name))
  \/ (pc = "idle" /\ \E pat \in Patterns : \E name \in Names : CallMatchSimple(pat, name))
  \/ (pc = "idle" /\ \E pat \in Patterns : \E text \in Names : CallMatchAsPatternPrefix(pat, text))

SpecWildcard == Init /\ [][NextWildcard]_vars

\* ------------------------------------------------------------------------
\* argExpander called on label lists
\* ------------------------------------------------------------------------
CallArgExpander(labels) ==
  /\ pc = "idle"
  /\ lists' = labels
  /\ LET res == argExpanderOn(labels, <<>>)
     IN  /\ out' = res.out
         /\ heap' = res.heap
  /\ pc' = "argExpanded"
  /\ UNCHANGED <<findVars, rangeVars, expanded, hasVars, expandVars, envVars,
               wildcardVars, policyVars>>

NextExpander == pc = "idle" /\ \E labels \in ExpanderInputs : CallArgExpander(labels)

SpecExpander == Init /\ [][NextExpander]_vars

\* ------------------------------------------------------------------------
\* Package policy: the checks of an Action
\* ------------------------------------------------------------------------
\* act.IsObjectAction()
CallIsObjectAction(act) ==
  /\ pc = "idle"
  /\ action' = act
  /\ objectAction' = IsObjectAction(act)
  /\ pc' = "isObjectAction"
  /\ UNCHANGED <<findVars, rangeVars, expanded, hasVars, expandVars, envVars,
               wildcardVars, expanderVars, valid>>

\* act.IsValid()
CallIsValid(act) ==
  /\ pc = "idle"
  /\ action' = act
  /\ valid' = IsValid(act)
  /\ pc' = "isValid"
  /\ UNCHANGED <<findVars, rangeVars, expanded, hasVars, expandVars, envVars,
               wildcardVars, expanderVars, objectAction>>

\* action.IsValid() on the action IsObjectAction was just asked about
ThenIsValid ==
  /\ pc = "isObjectAction"
  /\ valid' = IsValid(action)
  /\ pc' = "bothChecked"
  /\ UNCHANGED <<findVars, rangeVars, expanded, hasVars, expandVars, envVars,
               wildcardVars, expanderVars, action, objectAction>>

NextPolicy ==
  \/ (pc = "idle" /\ \E act \in ActionInputs : CallIsObjectAction(act))
  \/ (pc = "idle" /\ \E act \in ActionInputs : CallIsValid(act))
  \/ ThenIsValid

SpecPolicy == Init /\ [][NextPolicy]_vars

\* ------------------------------------------------------------------------
\* Notions the properties are stated in
\* ------------------------------------------------------------------------
\* the two boundary texts of a token {N...M}
TokenBounds(tok) == Split(TrimSuffix(TrimPrefix(tok, openBraces), closeBraces), ellipses)

WellFormed(tok) ==
  Contains(tok, openBraces) /\ Contains(tok, closeBraces) /\ Len(TokenBounds(tok)) = 2

\* the one base of a range: decimal when both boundaries are decimal,
\* hexadecimal otherwise
BaseOf(tok) ==
  IF /\ ParseUint(TokenBounds(tok)[1], 10).err = "nil"
     /\ ParseUint(TokenBounds(tok)[2], 10).err = "nil"
  THEN 10 ELSE 16

BothParse(tok) ==
  /\ WellFormed(tok)
  /\ ParseUint(TokenBounds(tok)[1], BaseOf(tok)).err = "nil"
  /\ ParseUint(TokenBounds(tok)[2], BaseOf(tok)).err = "nil"

BoundN(tok) == ParseUint(TokenBounds(tok)[1], BaseOf(tok)).val

BoundM(tok) == ParseUint(TokenBounds(tok)[2], BaseOf(tok)).val

\* the integer a label denotes in the given base, -1 if it denotes none
ValueOf(label, base) ==
  IF ParseUint(label, base).err = "nil" THEN ParseUint(label, base).val ELSE -1

RangeReturned == pc = "ret"

RangeSucceeded == pc = "ret" /\ rangeErr.kind = "nil"

\* ------------------------------------------------------------------------
\* Properties of parseEllipsesRange
\* ------------------------------------------------------------------------
\* C1: both boundaries of a range are read in one base (hexadecimal as soon
\* as one of them is not decimal), and the labels returned are exactly the
\* integers from N to M of that base.
C1_SingleBase ==
  RangeSucceeded =>
    /\ BothParse(pattern)
    /\ start = BoundN(pattern)
    /\ end = BoundM(pattern)
    /\ \A k \in 1..Len(seq) : ValueOf(seq[k], BaseOf(pattern)) = BoundN(pattern) + k - 1

\* C2: a range whose boundaries parse in one base with N <= M succeeds with
\* exactly M - N + 1 labels, of values N, N+1, ..., M; the loop never holds
\* more labels than that.
C2_CountAscending ==
  (pc \in {"label", "ret"} /\ BothParse(pattern) /\ BoundN(pattern) <= BoundM(pattern)) =>
    /\ rangeErr.kind = "nil"
    /\ Len(seq) <= BoundM(pattern) - BoundN(pattern) + 1
    /\ (pc = "ret" => Len(seq) = BoundM(pattern) - BoundN(pattern) + 1)
    /\ \A k \in 1..Len(seq) : ValueOf(seq[k], BaseOf(pattern)) = BoundN(pattern) + k - 1

\* the padding condition, on the literal texts of the boundaries
PadApplies(tok) ==
  LET l == TokenBounds(tok)[1]
      r == TokenBounds(tok)[2]
  IN (Len(l) > 1 /\ l[1] = "0") \/ (Len(r) >= 1 /\ r[1] = "0")

AllDigits(label, base) == \A k \in 1..Len(label) : IsDigit(label[k], base)

MinimalWidth(label) == Len(label) = 1 \/ (Len(label) > 1 /\ label[1] # "0")

\* C3: padding applies exactly when the left boundary starts with "0" and
\* is longer than one character or the right boundary starts with "0"; then
\* every label has the length of the right boundary's text, otherwise every
\* label is the minimal rendering of its integer; the digits are decimal, or
\* lowercase hexadecimal for a hexadecimal range.
C3_Padding ==
  (pc \in {"label", "ret"} /\ rangeErr.kind = "nil") =>
    \A k \in 1..Len(seq) :
      /\ AllDigits(seq[k], IF hexadecimal THEN 16 ELSE 10)
      /\ ValueOf(seq[k], IF hexadecimal THEN 16 ELSE 10) = (start + k - 1) % (2^UintBits)
      /\ IF PadApplies(pattern)
         THEN Len(seq[k]) = Len(TokenBounds(pattern)[2])
         ELSE MinimalWidth(seq[k])

C3_Witness ==
  /\ RangeSucceeded
  /\ pattern = Span(<<"0", "a">>, <<"1", "f">>)
  /\ Len(seq) = 22
  /\ seq[1] = <<"0", "a">>
  /\ seq[22] = <<"1", "f">>

OneToTen == Span(<<"1">>, <<"1", "0">>)

\* C4 as stated: "1...10" yields 01, 02, ..., 10, every label of width 2.
C4_Original ==
  (RangeReturned /\ pattern = OneToTen) =>
    /\ rangeErr.kind = "nil"
    /\ Len(seq) = 10
    /\ \A k \in 1..Len(seq) : Len(seq[k]) = 2

\* C4, amended: "1...10" yields 1, 2, ..., 9, 10 without padding, since
\* neither boundary begins with "0".
C4_Unpadded ==
  (RangeReturned /\ pattern = OneToTen) =>
    /\ rangeErr.kind = "nil"
    /\ seq = << <<"1">>, <<"2">>, <<"3">>, <<"4">>, <<"5">>, <<"6">>, <<"7">>,
                <<"8">>, <<"9">>, <<"1", "0">> >>

C4_Witness == RangeSucceeded /\ pattern = OneToTen /\ Len(seq) = 10

\* C5: a range whose boundaries parse in the range's base with N > M fails
\* with the range-order error, which carries the two boundary values, and
\* returns no labels.
C5_Descending ==
  (RangeReturned /\ BothParse(pattern) /\ BoundN(pattern) > BoundM(pattern)) =>
    /\ rangeErr.kind = "order"
    /\ rangeErr.start > rangeErr.end
    /\ seq = <<>>

\* ------------------------------------------------------------------------
\* Spans of an input, read off the input text
\* ------------------------------------------------------------------------
SpanStarts(s) == {p \in 1..Len(s) : SpanEnd(s, p) > 0}

MinOf(S) == CHOOSE x \in S : \A y \in S : x <= y

MaxOf(S) == CHOOSE x \in S : \A y \in S : y <= x

RECURSIVE Ascending(_)
Ascending(S) == IF S = {} THEN <<>> ELSE <<MinOf(S)>> \o Ascending(S \ {MinOf(S)})

TokenAt(s, p) == SubSeq(s, p, SpanEnd(s, p))

\* the labels a token stands for
RangeLabels(tok) ==
  LET h == RangeHeader(tok)
  IN IF h.err.kind # "nil" THEN <<>>
     ELSE [k \in 1..(h.end - h.start + 1) |->
             Label(h.ellipsesRange, h.hexadecimal, h.start + k - 1)]

\* the first line of s that holds a span: its first and last position
LineStart(s) ==
  MaxOf({0} \cup {k \in 1..(MinOf(SpanStarts(s)) - 1) : s[k] = "\n"}) + 1

LineEnd(s) ==
  MinOf({Len(s) + 1} \cup {k \in MinOf(SpanStarts(s))..Len(s) : s[k] = "\n"}) - 1

LineSpans(s) ==
  LET starts == SpanStarts(s)
      first == LineStart(s)
      last == LineEnd(s)
  IN  IF starts = {} THEN {}
      ELSE {p \in starts : first <= p /\ p <= last}

\* the text between the span at p and the next span of S (or position last)
Following(s, p, S, last) ==
  SubSeq(s, SpanEnd(s, p) + 1, MinOf({q \in S : q > p} \cup {last + 1}) - 1)

StrayBrace(s) == \E k \in 1..Len(s) : s[k] \in {"{", "}"}

Succeeded == pc = "done" /\ err.kind = "nil"

Failed == pc = "done" /\ err.kind # "nil"

\* ------------------------------------------------------------------------
\* Properties of FindEllipsesPatterns
\* ------------------------------------------------------------------------
OneLine(s) == \A k \in 1..Len(s) : s[k] # "\n"

\* C6 as stated, on the inputs without a line feed: on success the result
\* has one Pattern per span of the input, in left-to-right order, element 0
\* being the leftmost span and carrying the literal prefix of the input.
C6_Original ==
  (Succeeded /\ OneLine(arg)) =>
    LET S == SpanStarts(arg)
        L == Ascending(S)
    IN /\ Len(v) = Len(L)
       /\ \A k \in 1..Len(L) :
            /\ v[k].Seq = RangeLabels(TokenAt(arg, L[k]))
            /\ v[k].Suffix = Following(arg, L[k], S, Len(arg))
            /\ (k = 1 => v[k].Prefix = SubSeq(arg, 1, L[1] - 1))

\* C6, amended: on success the result has one Pattern per span of the first
\* line of the input that holds a span, in right-to-left order: element 0
\* is the rightmost span, the last element is the leftmost span and carries
\* the literal text of that line before it; every other Prefix is empty.
C6_RightToLeft ==
  Succeeded =>
    LET S == LineSpans(arg)
        L == Ascending(S)
        n == Len(L)
    IN /\ Len(v) = n
       /\ n >= 1
       /\ \A k \in 1..n :
            /\ v[k].Seq = RangeLabels(TokenAt(arg, L[n - k + 1]))
            /\ v[k].Suffix = Following(arg, L[n - k + 1], S, LineEnd(arg))
            /\ v[k].Prefix = IF k = n THEN SubSeq(arg, LineStart(arg), L[1] - 1) ELSE <<>>

C6_Witness ==
  /\ Succeeded
  /\ Len(v) = 2
  /\ v[1].Seq # v[2].Seq
  /\ v[1].Suffix # v[2].Suffix
  /\ v[2].Prefix # <<>>

\* every string obtained from s by replacing each span by one of its labels
RECURSIVE Substitutions(_)
Substitutions(s) ==
  IF SpanStarts(s) = {} THEN {s}
  ELSE LET p == MinOf(SpanStarts(s))
           r == SpanEnd(s, p)
           labels == RangeLabels(SubSeq(s, p, r))
       IN {SubSeq(s, 1, p - 1) \o labels[k] \o rest :
             k \in 1..Len(labels), rest \in Substitutions(SubSeq(s, r + 1, Len(s)))}

RECURSIVE ProductOfSizes(_, _)
ProductOfSizes(s, L) ==
  IF L = <<>> THEN 1
  ELSE Len(RangeLabels(TokenAt(s, Head(L)))) * ProductOfSizes(s, Tail(L))

\* C7: Expand on a successful result returns |S1|*...*|Sn| tuples of length
\* n; the concatenation of a tuple is the input with every span replaced by
\* one of its labels, and every such substitution is produced exactly once.
C7_Product ==
  pc = "expanded" =>
    LET L == Ascending(SpanStarts(arg))
    IN /\ Len(expanded) = ProductOfSizes(arg, L)
       /\ \A t \in 1..Len(expanded) : Len(expanded[t]) = Len(L)
       /\ {Flatten(expanded[t]) : t \in 1..Len(expanded)} = Substitutions(arg)
       /\ Cardinality(Substitutions(arg)) = Len(expanded)

\* C8 as stated: every failure is returned as the format error naming the
\* input.
C8_Original == Failed => err = ErrInvalidEllipsesFormatFn(arg)

\* C8, amended: a failure whose cause is a range token (unparsable boundary,
\* start > end) is returned as the range parser's own error, unchanged; every
\* other failure (no span, leftover braces) is the format error naming the
\* input.
C8_Relabelled ==
  Failed =>
    IF rangeErr.kind # "nil"
    THEN err = rangeErr /\ err.kind \in {"strconv", "order"}
    ELSE err = ErrInvalidEllipsesFormatFn(arg)

C8_Witness ==
  /\ Failed
  /\ err.kind = "order"
  /\ arg # pattern

\* C9 as stated: a failing call returns an empty ArgPattern.
C9_Original == Failed => v = <<>>

\* the rightmost span of the first line whose token the range parser rejects
FailingSpan(s) ==
  MaxOf({p \in LineSpans(s) : RangeHeader(TokenAt(s, p)).err.kind # "nil"})

\* C9, amended: a call failing with the format error returns an empty
\* ArgPattern; a call failing with a range error returns the Patterns of the
\* spans to the right of the failing span, rightmost first (empty only when
\* the failing span is the rightmost one).
C9_Partial ==
  Failed =>
    IF err.kind = "format" THEN v = <<>>
    ELSE LET S == LineSpans(arg)
             failing == FailingSpan(arg)
             R == Ascending({p \in S : p > failing})
             n == Len(R)
         IN /\ Len(v) = n
            /\ \A k \in 1..n :
                 /\ v[k].Seq = RangeLabels(TokenAt(arg, R[n - k + 1]))
                 /\ v[k].Suffix = Following(arg, R[n - k + 1], S, LineEnd(arg))
                 /\ v[k].Prefix = <<>>

C9_Witness ==
  /\ Failed
  /\ err.kind = "order"
  /\ Len(v) = 1
  /\ v[1].Seq = << <<"1">>, <<"2">> >>

\* C10: no Prefix or Suffix of a successful result holds a brace; when the
\* extraction of all spans leaves a brace in a prefix or suffix, the call
\* fails with the format error naming the input and returns no patterns.
C10_NoBraces ==
  pc = "done" =>
    /\ err.kind = "nil" =>
         \A k \in 1..Len(v) : ~StrayBrace(v[k].Prefix) /\ ~StrayBrace(v[k].Suffix)
    /\ ( /\ rangeErr.kind = "nil"
         /\ \E k \in 1..Len(patterns) :
              StrayBrace(patterns[k].Prefix) \/ StrayBrace(patterns[k].Suffix) )
       => (err = ErrInvalidEllipsesFormatFn(arg) /\ v = <<>>)

C10_Witness ==
  /\ Failed
  /\ rangeErr.kind = "nil"
  /\ Len(patterns) = 2
  /\ StrayBrace(patterns[2].Prefix)
  /\ v = <<>>
  /\ err = ErrInvalidEllipsesFormatFn(arg)

\* C11: a successful result holds at least one Pattern and every Seq is
\* non-empty, so Expand on it never fails on an empty list and returns at
\* least one tuple.
C11_NonEmpty ==
  /\ Succeeded => (Len(v) >= 1 /\ \A k \in 1..Len(v) : Len(v[k].Seq) >= 1)
  /\ pc # "panic"
  /\ pc = "expanded" => (Len(expanded) >= 1 /\ \A t \in 1..Len(expanded) : Len(expanded[t]) = Len(v))

C11_Witness ==
  /\ pc = "expanded"
  /\ Len(v) = 2
  /\ Len(expanded) = 4

\* C14: the label loop of a range with start <= end stops after
\* end - start + 1 iterations, also when end is the largest unsigned value:
\* it never holds more labels than that.
C14_LoopStops ==
  pc = "label" => Len(seq) <= end - start + 1

\* C15: an input that holds no span {alphanumerics...alphanumerics} fails
\* with the format error naming that input and returns no patterns.
C15_NoSpan ==
  (pc = "done" /\ SpanStarts(arg) = {}) =>
    (err = ErrInvalidEllipsesFormatFn(arg) /\ v = <<>> /\ patterns = <<>>)

C15_Witness ==
  /\ pc = "done"
  /\ arg = <<"s">> \o openBraces \o <<"1">> \o ellipses \o <<"2">>
  /\ err = ErrInvalidEllipsesFormatFn(arg)
  /\ v = <<>>

\* an opening brace with a closing brace somewhere after it
Balanced(a) ==
  \E p \in 1..Len(a) : \E q \in 1..Len(a) :
    p < q /\ a[p] = "{" /\ a[q] = "}"

\* C12 as stated: HasEllipses returns true only if every argument holds
\* "..." or a balanced pair, an opening brace with a closing brace after it;
\* an argument whose only braces are "}" then "{" makes the result false.
C12_Original ==
  (pc = "hasEllipses" /\ ok) =>
    \A k \in 1..Len(args) : Contains(args[k], ellipses) \/ Balanced(args[k])

\* C12: HasEllipses returns true exactly when every argument holds "..." or
\* holds at least one "{" and at least one "}", in either order; one
\* argument with neither makes the result false.
C12_AnyOrder ==
  pc = "hasEllipses" =>
    (ok <=> \A k \in 1..Len(args) :
              \/ Contains(args[k], ellipses)
              \/ (\E p \in 1..Len(args[k]) : args[k][p] = "{") /\
                 (\E q \in 1..Len(args[k]) : args[k][q] = "}"))

C12_Witness ==
  /\ pc = "hasEllipses"
  /\ args = <<closeBraces \o openBraces, openBraces \o closeBraces>>
  /\ ok

\* C13: Pattern.Expand returns one label per entry of Seq, the i-th being
\* Prefix + Seq[i] + Suffix, in the order of Seq, for every combination of
\* empty and non-empty Prefix and Suffix.
C13_Decorated ==
  pc = "patternExpanded" =>
    /\ Len(expandLabels) = Len(receiver.Seq)
    /\ \A k \in 1..Len(receiver.Seq) :
         expandLabels[k] = receiver.Prefix \o receiver.Seq[k] \o receiver.Suffix

C13_Witness ==
  /\ pc = "patternExpanded"
  /\ receiver = Pattern(<<"a">>, <<"b">>, << <<"1">>, <<"0", "2">> >>)
  /\ expandLabels = << <<"a", "1", "b">>, <<"a", "0", "2", "b">> >>

\* the last call of LookupEnv met a failing getEnvValueFromHTTP
FetchFailed == pc = "lookupEnv" /\ trace.called /\ trace.failed

\* C16: once a fetch for a key succeeded with a value, every later call for
\* that key whose fetch fails returns that value and a nil error; a failing
\* fetch with no earlier success and no "_"+key variable returns the error.
C16_Cached ==
  /\ (FetchFailed /\ fetched[trace.key].some) =>
       (ret.v = fetched[trace.key].v /\ ret.err = nil)
  /\ (FetchFailed /\ ~fetched[trace.key].some
        /\ Underscore(trace.key) \notin DOMAIN environ) =>
       ret.err.kind # "nil"

\* the value names a remote server as LookupEnv documents it
RemoteValue(x) ==
  \/ HasPrefix(x, webEnvScheme \o <<":", "/", "/">>)
  \/ HasPrefix(x, webEnvSchemeSecure \o <<":", "/", "/">>)

\* C17: a variable whose value does not start with "env://" or "env+tls://"
\* is returned as it is, with empty credentials and a nil error, without a
\* remote fetch and without reading or writing the "_"+key variable.
C17_AsIs ==
  (pc = "lookupEnv" /\ trace.present /\ ~RemoteValue(trace.value)) =>
    /\ ret = [v |-> trace.value, user |-> <<>>, pwd |-> <<>>, err |-> nil]
    /\ ~trace.requested
    /\ Underscore(trace.key) \notin (trace.reads \cup trace.writes)

\* the last call was fn(pattern, name)
Called(fn) == pc = "wildcard" /\ call.fn = fn

\* the patterns got by deleting "?" characters from the end of pat
RECURSIVE TrailingDeleted(_)
TrailingDeleted(pat) ==
  IF pat # <<>> /\ pat[Len(pat)] = "?"
  THEN LET shorter == SubSeq(pat, 1, Len(pat) - 1)
       IN  {shorter} \cup TrailingDeleted(shorter)
  ELSE {}

\* C18: MatchSimple(pattern, name) is true exactly when Match(pattern, name)
\* is true or Match accepts name for the pattern with some of its trailing
\* "?" deleted; a pattern with literals after the "?", such as "a?b", does
\* not match the name "a".
C18_TrailingOptional ==
  Called("MatchSimple") =>
    (matched <=>
       \/ Match(call.pattern, call.name)
       \/ \E shorter \in TrailingDeleted(call.pattern) : Match(shorter, call.name))

\* the characters of a string: one per ASCII byte, one per two-byte sequence
RECURSIVE Runes(_)
Runes(s) ==
  IF s = <<>> THEN <<>>
  ELSE IF Len(s) >= 2 /\ SubSeq(s, 1, 2) = EAcute
       THEN <<EAcute>> \o Runes(SubSeq(s, 3, Len(s)))
       ELSE << <<s[1]>> >> \o Runes(Tail(s))

\* cs can be obtained from the pattern characters ps by replacing each "*"
\* with any string and each "?" with exactly one character
RECURSIVE Obtainable(_, _)
Obtainable(ps, cs) ==
  IF ps = <<>> THEN cs = <<>>
  ELSE IF ps[1] = <<"*">>
       THEN \E k \in 0..Len(cs) : Obtainable(Tail(ps), SubSeq(cs, k + 1, Len(cs)))
  ELSE IF ps[1] = <<"?">>
       THEN cs # <<>> /\ Obtainable(Tail(ps), Tail(cs))
  ELSE cs # <<>> /\ cs[1] = ps[1] /\ Obtainable(Tail(ps), Tail(cs))

\* C19: Match(pattern, name) is true exactly when name can be obtained from
\* pattern by replacing each "*" with any string and each "?" with exactly
\* one character; the empty pattern matches only the empty name.
C19_ExactMatch ==
  Called("Match") =>
    (matched <=> Obtainable(Runes(call.pattern), Runes(call.name)))

\* the strings tried as what follows the text
Completions == Names

\* C20: MatchAsPatternPrefix(pattern, text) is true exactly when text is a
\* prefix of some string that Match(pattern, .) accepts, and every prefix
\* of a string matched by Match is accepted by MatchAsPatternPrefix.
C20_PrefixOfMatch ==
  /\ Called("MatchAsPatternPrefix") =>
       (matched <=> \E x \in Completions : Match(call.pattern, call.name \o x))
  /\ (Called("Match") /\ matched) =>
       \A k \in 0..Len(call.name) :
         MatchAsPatternPrefix(call.pattern, SubSeq(call.name, 1, k))

C20_Witness ==
  /\ Called("MatchAsPatternPrefix")
  /\ call.pattern = <<"a", "?", "b">>
  /\ call.name = <<"a", "b">>
  /\ matched

\* the product of the sizes of the lists from the n-th on
RECURSIVE SizesFrom(_, _)
SizesFrom(ls, n) == IF n > Len(ls) THEN 1 ELSE Len(ls[n]) * SizesFrom(ls, n + 1)

\* the element of the n-th list in the t-th tuple (t from 0): the first list
\* varies slowest, the last list fastest
ChoiceIn(ls, n, t) == ls[n][((t \div SizesFrom(ls, n + 1)) % Len(ls[n])) + 1]

\* C21: argExpander over L1..Lk returns the Cartesian product, the choice
\* from L1 varying slowest and the choice from Lk fastest, each tuple holding
\* the element of Lk first and that of L1 last; no two tuples share storage,
\* and the value-level expansion agrees with it.
C21_ProductOrder ==
  pc = "argExpanded" =>
    LET k == Len(lists)
    IN  /\ Len(out) = SizesFrom(lists, 1)
        /\ \A t \in 1..Len(out) :
             /\ out[t].len = k
             /\ \A p \in 1..k :
                  Elements(heap, out[t])[p] = ChoiceIn(lists, k - p + 1, t - 1)
        /\ \A t \in 1..Len(out) : \A u \in 1..Len(out) :
             t # u => out[t].arr # out[u].arr
        /\ argExpander(lists) = [t \in 1..Len(out) |-> Elements(heap, out[t])]

C21_Witness ==
  /\ pc = "argExpanded"
  /\ Len(lists) = 4
  /\ \A n \in 1..4 : Len(lists[n]) = 2
  /\ Len(out) = 16
  /\ \A t \in 1..16 : out[t].cap = 4
  /\ Elements(heap, out[2]) = <<LabelOf(4, 2), LabelOf(3, 1), LabelOf(2, 1), LabelOf(1, 1)>>

\* C22: HasEllipses is a sound gate: whenever FindEllipsesPatterns(arg)
\* succeeds HasEllipses(arg) is true, and whenever HasEllipses(arg) is false
\* FindEllipsesPatterns(arg) fails with the format error.
C22_SoundGate ==
  /\ Succeeded => HasEllipses(<<arg>>)
  /\ (pc = "done" /\ ~HasEllipses(<<arg>>)) =>
       (err = ErrInvalidEllipsesFormatFn(arg) /\ v = <<>>)

C22_Witness ==
  /\ Succeeded
  /\ arg = Span(<<"1">>, <<"2">>) \o <<"a">>
  /\ HasEllipses(<<arg>>)

\* C23: every Action for which IsObjectAction returns true makes IsValid
\* return true; the table of object actions is a subset of the table of
\* supported actions and both checks match the action, as a wildcard
\* pattern, against the entries of their table.
C23_ObjectActionsValid ==
  /\ supportedObjectActions \subseteq supportedActions
  /\ (pc = "bothChecked" /\ objectAction) => valid
  /\ pc = "bothChecked" =>
       /\ objectAction = (\E e \in supportedObjectActions : Match(action, e))
       /\ valid = (\E e \in supportedActions : Match(action, e))

C23_Witness ==
  /\ pc = "bothChecked"
  /\ action = <<"s", "3", ":", "*", "O", "b", "j", "e", "c", "t">>
  /\ objectAction
  /\ valid

====
